---- MODULE Spec2Model ----
(***************************************************************************)
(* Model of imessage-extractor.py: the text recovery of                    *)
(* iMessageExtractor.extract_message_text, the per-message processing of   *)
(* get_messages_for_contact (placeholder text, readable date), the         *)
(* timestamp conversion, and the connection lifecycle and exit status of   *)
(* main.                                                                   *)
(*                                                                         *)
(* Python str values are sequences of code points and bytes values are     *)
(* sequences of numbers in 0..255, so that decoding, trimming and scanning *)
(* are computed and not assumed.                                           *)
(***************************************************************************)
EXTENDS Integers, Sequences, FiniteSets, TLC

VARIABLES
    rec,        \* extract_message_text: the message_row passed in
    result,     \* extract_message_text: what the call returned (NotCalled before)
    tz,            \* the local time zone: seconds east of UTC
    conn,          \* self.conn: "none", "open" or "closed"
    cpc,           \* get_messages_for_contact: position in the call
    remaining,     \* get_messages_for_contact: rows of messages not yet processed
    n_processed,   \* get_messages_for_contact: len(processed_messages)
    msg_dict,      \* get_messages_for_contact: the msg_dict built last
    returned,      \* get_messages_for_contact: len of the list returned, -1 before
    pc,            \* main: position in main()
    db,            \* what db_path names: "missing", "notdb" or "ok"
    debug,         \* args.debug
    analyze_contact, \* whether --analyze-contact was given
    connected,     \* what connect_to_database returned: "pending", "true", "false"
    opens,         \* how many times sqlite3.connect returned a connection
    contacts,      \* main: len(contacts) of the last search
    messages,      \* main: len(messages) of the last extraction
    choices,       \* main: how many menu choices were read
    ending,        \* main: how the try block was left, "none" inside it
    exit_code,     \* the exit status of the process, -1 while it runs
    epc,           \* export_to_csv: position in the call
    contact_name,  \* export_to_csv: the contact_name argument
    safe_name,     \* export_to_csv: safe_name, part of the file's name
    csvfile,       \* the file at filepath: whether it exists and what it holds
    exported       \* export_to_csv: "pending", then "filepath" or "None"

recoverVars == <<rec, result>>
contactVars == <<tz, cpc, remaining, n_processed, msg_dict, returned>>
mainVars == <<pc, db, debug, analyze_contact, connected, opens, contacts, messages,
              choices, ending, exit_code>>
exportVars == <<epc, contact_name, safe_name, csvfile, exported>>
vars == <<rec, result, tz, conn, cpc, remaining, n_processed, msg_dict, returned,
          pc, db, debug, analyze_contact, connected, opens, contacts, messages,
          choices, ending, exit_code,
          epc, contact_name, safe_name, csvfile, exported>>

----------------------------------------------------------------------------
(* Values of a database column as Python sees them.                        *)

Null == [t |-> "null", v |-> <<>>]
Str(s) == [t |-> "str", v |-> s]
Bytes(b) == [t |-> "bytes", v |-> b]
PyInt(n) == [t |-> "int", v |-> n]
\* A number of nanoseconds (an INTEGER column value, or a REAL one with a whole
\* value), kept as <<days, seconds of the day, nanoseconds of the second>>:
\* the model checker's integers are 32 bits wide, so the count
\* (days * 86400 + seconds) * 10^9 + nanoseconds is held by its digits.
Nanos(days, secs, nanos) == [t |-> "ns", v |-> <<days, secs, nanos>>]

(* Outcomes of a call or of a block: a returned value, no value (None, or  *)
(* falling out of the block), or a raised exception.                       *)
Return(s) == [kind |-> "text", v |-> s]
Nothing == [kind |-> "none", v |-> <<>>]
Raise == [kind |-> "raise", v |-> <<>>]
NotCalled == [kind |-> "notcalled", v |-> <<>>]

----------------------------------------------------------------------------
(* Python built-ins used by the code.                                      *)

\* str.isspace for one code point (the white space str.strip() removes)
IsSpace(c) ==
    \/ c \in 9..13
    \/ c \in 28..32
    \/ c \in {133, 160, 5760, 8232, 8233, 8239, 8287, 12288}
    \/ c \in 8192..8202

RECURSIVE LStrip(_)
LStrip(s) ==
    IF s # <<>> /\ IsSpace(Head(s)) THEN LStrip(Tail(s)) ELSE s

RECURSIVE RStrip(_)
RStrip(s) ==
    IF s # <<>> /\ IsSpace(s[Len(s)]) THEN RStrip(SubSeq(s, 1, Len(s) - 1)) ELSE s

\* str.strip()
Strip(s) == RStrip(LStrip(s))

\* str.startswith(prefix)
StartsWith(s, prefix) ==
    /\ Len(s) >= Len(prefix)
    /\ \A k \in 1..Len(prefix) : s[k] = prefix[k]

\* needle in haystack, for bytes
Contains(hay, needle) ==
    \E i \in 0..(Len(hay) - Len(needle)) :
        \A k \in 1..Len(needle) : hay[i + k] = needle[k]

HexDigit(n) == IF n < 10 THEN 48 + n ELSE 87 + n

\* repr() of one byte inside a bytes literal
ReprByte(b) ==
    CASE b = 92 -> <<92, 92>>
      [] b = 39 -> <<92, 39>>
      [] b = 9  -> <<92, 116>>
      [] b = 10 -> <<92, 110>>
      [] b = 13 -> <<92, 114>>
      [] b \in 32..126 /\ b # 92 /\ b # 39 -> <<b>>
      [] OTHER -> <<92, 120, HexDigit(b \div 16), HexDigit(b % 16)>>

RECURSIVE ReprBody(_, _)
ReprBody(bs, i) ==
    IF i > Len(bs) THEN <<>> ELSE ReprByte(bs[i]) \o ReprBody(bs, i + 1)

\* str(candidate): a str is itself, bytes give their literal b'...'
PyStr(c) ==
    IF c.t = "bytes" THEN <<98, 39>> \o ReprBody(c.v, 1) \o <<39>> ELSE c.v

\* truth value of a column value: None, 0, '' and b'' are false
Truthy(c) ==
    CASE c.t = "null" -> FALSE
      [] c.t = "int" -> c.v # 0
      [] c.t = "ns" -> c.v # <<0, 0, 0>>
      [] OTHER -> c.v # <<>>

----------------------------------------------------------------------------
(* UTF-8 decoding, bytes.decode('utf-8') and errors='ignore'.              *)

\* number of bytes the sequence led by b takes; 0 when b cannot lead
Utf8Need(b) ==
    CASE b < 128 -> 1
      [] b \in 194..223 -> 2
      [] b \in 224..239 -> 3
      [] b \in 240..244 -> 4
      [] OTHER -> 0

\* the values the second byte may take after lead byte b
Utf8Second(b) ==
    CASE b = 224 -> 160..191
      [] b = 237 -> 128..159
      [] b = 240 -> 144..191
      [] b = 244 -> 128..143
      [] OTHER -> 128..191

\* whether a well-formed sequence starts at position i of bs
Utf8Ok(bs, i) ==
    LET n == Utf8Need(bs[i]) IN
    /\ n > 0
    /\ i + n - 1 <= Len(bs)
    /\ n >= 2 => bs[i + 1] \in Utf8Second(bs[i])
    /\ \A k \in 2..(n - 1) : bs[i + k] \in 128..191

\* the code point of the well-formed sequence at position i
Utf8CodePoint(bs, i) ==
    LET n == Utf8Need(bs[i]) IN
    CASE n = 1 -> bs[i]
      [] n = 2 -> (bs[i] - 192) * 64 + (bs[i + 1] - 128)
      [] n = 3 -> (bs[i] - 224) * 4096 + (bs[i + 1] - 128) * 64 + (bs[i + 2] - 128)
      [] OTHER -> (bs[i] - 240) * 262144 + (bs[i + 1] - 128) * 4096
                     + (bs[i + 2] - 128) * 64 + (bs[i + 3] - 128)

\* whether bs.decode('utf-8') raises UnicodeDecodeError
RECURSIVE Utf8Valid(_, _)
Utf8Valid(bs, i) ==
    IF i > Len(bs) THEN TRUE
    ELSE Utf8Ok(bs, i) /\ Utf8Valid(bs, i + Utf8Need(bs[i]))

\* the decoded text; a byte that starts no well-formed sequence is dropped,
\* which is errors='ignore' and never happens when Utf8Valid holds
RECURSIVE Utf8Text(_, _)
Utf8Text(bs, i) ==
    IF i > Len(bs) THEN <<>>
    ELSE IF Utf8Ok(bs, i)
         THEN <<Utf8CodePoint(bs, i)>> \o Utf8Text(bs, i + Utf8Need(bs[i]))
         ELSE Utf8Text(bs, i + 1)

\* candidate.decode('utf-8')
DecodeStrict(bs) ==
    IF Utf8Valid(bs, 1) THEN Return(Utf8Text(bs, 1)) ELSE Raise

\* candidate[start:i].decode('utf-8', errors='ignore')
DecodeIgnore(bs) == Utf8Text(bs, 1)

----------------------------------------------------------------------------
(* extract_message_text                                                    *)

\* b'NSAttributedString'
MarkerNSAttributedString ==
    <<78, 83, 65, 116, 116, 114, 105, 98, 117, 116, 101, 100, 83, 116, 114, 105, 110, 103>>
\* b'NSMutableAttributedString'
MarkerNSMutableAttributedString ==
    <<78, 83, 77, 117, 116, 97, 98, 108, 101, 65, 116, 116, 114, 105, 98, 117, 116,
      101, 100, 83, 116, 114, 105, 110, 103>>
\* 'NS'
PrefixNS == <<78, 83>>
\* '__kIM'
PrefixKIM == <<95, 95, 107, 73, 77>>

\* len(text) > 20
MinTextLen == 20
\* the printable range 0x20 .. 0x7E
PrintableLo == 32
PrintableHi == 126

IsPrintable(b) == PrintableLo <= b /\ b <= PrintableHi

\* the first while loop: skip non-printable bytes from i
RECURSIVE SkipNonPrintable(_, _)
SkipNonPrintable(candidate, i) ==
    IF i <= Len(candidate) /\ ~IsPrintable(candidate[i])
    THEN SkipNonPrintable(candidate, i + 1) ELSE i

\* the second while loop: collect printable bytes from i
RECURSIVE CollectPrintable(_, _)
CollectPrintable(candidate, i) ==
    IF i <= Len(candidate) /\ IsPrintable(candidate[i])
    THEN CollectPrintable(candidate, i + 1) ELSE i

\* the filter without its '__kIM' test
MutKeepsKIMRun(text) ==
    /\ Len(text) > MinTextLen
    /\ ~StartsWith(text, PrefixNS)

\* the filter on a run: long enough and no class or key name
IsMeaningful(text) ==
    /\ Len(text) > MinTextLen
    /\ ~StartsWith(text, PrefixNS)
    /\ ~StartsWith(text, PrefixKIM)

\* the outer while loop, positions are 1-based: text_parts after scanning from i
RECURSIVE ScanRuns(_, _, _)
ScanRuns(candidate, i, text_parts) ==
    IF i > Len(candidate) THEN text_parts
    ELSE LET start == SkipNonPrintable(candidate, i)
             stop == CollectPrintable(candidate, start)
             text == DecodeIgnore(SubSeq(candidate, start, stop - 1))
         IN  ScanRuns(candidate, stop,
                      IF stop > start /\ IsMeaningful(text)
                      THEN Append(text_parts, text) ELSE text_parts)

\* max(text_parts, key=len) keeps the first of the longest
RECURSIVE MaxByLenFrom(_, _, _)
MaxByLenFrom(text_parts, k, best) ==
    IF k > Len(text_parts) THEN best
    ELSE MaxByLenFrom(text_parts, k + 1,
                      IF Len(text_parts[k]) > Len(best) THEN text_parts[k] ELSE best)

\* a maximum that keeps the last of the longest
MutLastOfLongest(text_parts) ==
    LET n == Len(text_parts) IN
    text_parts[CHOOSE k \in 1..n :
        /\ \A j \in 1..n : Len(text_parts[j]) <= Len(text_parts[k])
        /\ \A j \in (k + 1)..n : Len(text_parts[j]) < Len(text_parts[k])]

MaxByLen(text_parts) == MaxByLenFrom(text_parts, 2, text_parts[1])

\* b'NSAttributedString' in candidate or b'NSMutableAttributedString' in candidate
HasMarker(candidate) ==
    \/ Contains(candidate, MarkerNSAttributedString)
    \/ Contains(candidate, MarkerNSMutableAttributedString)

\* the try block with the UTF-8 decode ahead of the marker test
MutDecodeFirst(candidate) ==
    IF DecodeStrict(candidate).kind = "text" THEN DecodeStrict(candidate)
    ELSE IF HasMarker(candidate)
         THEN LET text_parts == ScanRuns(candidate, 1, <<>>) IN
              IF text_parts # <<>> THEN Return(MaxByLen(text_parts)) ELSE Nothing
         ELSE Raise

\* the body of the try block for a bytes candidate
DecodeBinary(candidate) ==
    IF HasMarker(candidate)
    THEN LET text_parts == ScanRuns(candidate, 1, <<>>) IN
         IF text_parts # <<>> THEN Return(MaxByLen(text_parts)) ELSE Nothing
    ELSE DecodeStrict(candidate)

\* the try block without its except clause
MutNoExcept(outcome) == outcome

\* except (UnicodeDecodeError, Exception): ... continue
ExceptContinue(outcome) ==
    IF outcome.kind = "raise" THEN Nothing ELSE outcome

\* the loop body returning the candidate untrimmed
MutNoStrip(candidate) ==
    IF Truthy(candidate) /\ Strip(PyStr(candidate)) # <<>>
    THEN IF candidate.t = "bytes"
         THEN ExceptContinue(DecodeBinary(candidate.v))
         ELSE Return(PyStr(candidate))
    ELSE Nothing

\* one iteration of the for loop: Return ends the function, Nothing goes on
TryCandidate(candidate) ==
    IF Truthy(candidate) /\ Strip(PyStr(candidate)) # <<>>
    THEN IF candidate.t = "bytes"
         THEN ExceptContinue(DecodeBinary(candidate.v))
         ELSE Return(Strip(PyStr(candidate)))
    ELSE Nothing

\* text_candidates
TextCandidates(message_row) ==
    <<message_row.text, message_row.body,
      message_row.attributedBody, message_row.payload_data>>

RECURSIVE ForCandidates(_, _)
ForCandidates(text_candidates, k) ==
    IF k > Len(text_candidates) THEN Nothing
    ELSE LET outcome == TryCandidate(text_candidates[k]) IN
         IF outcome.kind = "none"
         THEN ForCandidates(text_candidates, k + 1)
         ELSE outcome

extract_message_text(message_row) ==
    ForCandidates(TextCandidates(message_row), 1)

----------------------------------------------------------------------------
(* convert_apple_timestamp and the date arithmetic of datetime.            *)
(* A float of Unix seconds is <<days, seconds of the day, nanoseconds>>,   *)
(* days counted from 1970-01-01. Fractions are kept exactly: the model's   *)
(* rows hold whole and half seconds, which a float represents exactly.     *)

SecondsPerDay == 86400
\* datetime(2001, 1, 1) in days since 1970-01-01
AppleEpochDays == 11323
\* apple_timestamp / 1_000_000_000
NanosPerSecond == 1000000000
\* datetime.MINYEAR and datetime.MAXYEAR
MinYear == 1
MaxYear == 9999

Float(days, secs, nanos) == [kind |-> "float", v |-> <<days, secs, nanos>>]

\* bring seconds into 0..86399, carrying into the days
Normalize(days, secs) ==
    <<days + (secs \div SecondsPerDay), secs % SecondsPerDay>>

\* apple_epoch.timestamp(): the naive datetime is read as local time
AppleEpochTimestamp(zone) == Normalize(AppleEpochDays, 0 - zone)

\* convert_apple_timestamp: None for None; a value that cannot be divided
\* (a str) raises TypeError inside the try and gives None; otherwise the
\* epoch's Unix seconds plus the nanoseconds divided by 10^9
convert_apple_timestamp(apple_timestamp, zone) ==
    IF apple_timestamp.t = "null" THEN Nothing
    ELSE IF apple_timestamp.t # "ns" THEN Nothing
    ELSE LET epoch == AppleEpochTimestamp(zone)
             whole == Normalize(epoch[1] + apple_timestamp.v[1],
                                epoch[2] + apple_timestamp.v[2])
             nanos == apple_timestamp.v[3] % NanosPerSecond
         IN  Float(whole[1], whole[2], nanos)

\* truth value of what convert_apple_timestamp returned: None and 0.0 are false
TruthyTimestamp(timestamp) ==
    timestamp.kind = "float" /\ timestamp.v # <<0, 0, 0>>

\* the proleptic Gregorian date of a day number (days since 1970-01-01)
CivilFromDays(days) ==
    LET z == days + 719468
        era == z \div 146097
        doe == z - era * 146097
        yoe == (doe - (doe \div 1460) + (doe \div 36524) - (doe \div 146096)) \div 365
        doy == doe - (365 * yoe + (yoe \div 4) - (yoe \div 100))
        mp == (5 * doy + 2) \div 153
        d == doy - ((153 * mp + 2) \div 5) + 1
        m == IF mp < 10 THEN mp + 3 ELSE mp - 9
        y == yoe + era * 400 + (IF m <= 2 THEN 1 ELSE 0)
    IN  [year |-> y, month |-> m, day |-> d]

\* datetime.fromtimestamp(timestamp): local time; ValueError or OverflowError
\* when the year leaves MINYEAR..MAXYEAR
FromTimestamp(timestamp, zone) ==
    LET local == Normalize(timestamp.v[1], timestamp.v[2] + zone)
        date == CivilFromDays(local[1])
    IN  IF date.year < MinYear \/ date.year > MaxYear THEN Raise
        ELSE [kind |-> "datetime",
              v |-> <<date.year, date.month, date.day,
                      local[2] \div 3600, (local[2] % 3600) \div 60, local[2] % 60>>]

\* n in decimal, zero-padded to width digits
RECURSIVE Digits(_, _)
Digits(n, width) ==
    IF width = 0 THEN <<>> ELSE Digits(n \div 10, width - 1) \o <<48 + (n % 10)>>

\* .strftime('%Y-%m-%d %H:%M:%S')
Strftime(dt) ==
    Digits(dt.v[1], 4) \o <<45>> \o Digits(dt.v[2], 2) \o <<45>> \o Digits(dt.v[3], 2)
        \o <<32>> \o Digits(dt.v[4], 2) \o <<58>> \o Digits(dt.v[5], 2)
        \o <<58>> \o Digits(dt.v[6], 2)

----------------------------------------------------------------------------
(* get_messages_for_contact: the body of the loop over the rows.           *)

\* '[Attachment]'
PlaceholderAttachment == <<91, 65, 116, 116, 97, 99, 104, 109, 101, 110, 116, 93>>
\* '[App Message: ' and ']'
AppMessageOpen == <<91, 65, 112, 112, 32, 77, 101, 115, 115, 97, 103, 101, 58, 32>>
AppMessageClose == <<93>>
\* '[Reaction/Effect]'
PlaceholderReaction ==
    <<91, 82, 101, 97, 99, 116, 105, 111, 110, 47, 69, 102, 102, 101, 99, 116, 93>>
\* '[No text content]'
PlaceholderNoText ==
    <<91, 78, 111, 32, 116, 101, 120, 116, 32, 99, 111, 110, 116, 101, 110, 116, 93>>
\* 'Unknown'
Unknown == <<85, 110, 107, 110, 111, 119, 110>>
\* 'Me'
Me == <<77, 101>>

\* the placeholder with the bundle id tested ahead of the attachment flag
MutBundleFirst(msg) ==
    IF Truthy(msg.balloon_bundle_id)
    THEN AppMessageOpen \o PyStr(msg.balloon_bundle_id) \o AppMessageClose
    ELSE IF Truthy(msg.cache_has_attachments) THEN PlaceholderAttachment
    ELSE IF Truthy(msg.associated_message_type) THEN PlaceholderReaction
    ELSE PlaceholderNoText

\* the placeholder chosen when no text was extracted
Placeholder(msg) ==
    IF Truthy(msg.cache_has_attachments) THEN PlaceholderAttachment
    ELSE IF Truthy(msg.balloon_bundle_id)
    THEN AppMessageOpen \o PyStr(msg.balloon_bundle_id) \o AppMessageClose
    ELSE IF Truthy(msg.associated_message_type) THEN PlaceholderReaction
    ELSE PlaceholderNoText

\* if extracted_text: ... else: ...
DisplayText(msg, extracted_text) ==
    IF extracted_text.kind = "text" /\ extracted_text.v # <<>>
    THEN extracted_text.v
    ELSE Placeholder(msg)

\* the timestamp block: the readable date, or Raise out of fromtimestamp
ReadableDate(msg, zone) ==
    IF Truthy(msg.date)
    THEN LET timestamp == convert_apple_timestamp(msg.date, zone) IN
         IF TruthyTimestamp(timestamp)
         THEN LET dt == FromTimestamp(timestamp, zone) IN
              IF dt.kind = "raise" THEN Raise ELSE Return(Strftime(dt))
         ELSE Return(Unknown)
    ELSE Return(Unknown)

\* one iteration of the loop: the msg_dict appended, or Raise
ProcessRow(msg, zone) ==
    LET extracted_text == extract_message_text(msg)
        readable_date == ReadableDate(msg, zone)
    IN  IF readable_date.kind = "raise" THEN Raise
        ELSE [kind |-> "ok",
              v |-> [row |-> msg,
                     extracted_text |-> extracted_text,
                     display_text |-> DisplayText(msg, extracted_text),
                     readable_date |-> readable_date.v,
                     sender |-> IF Truthy(msg.is_from_me) THEN Me
                                ELSE PyStr(msg.contact_identifier)]]

----------------------------------------------------------------------------
(* Message records the model feeds to extract_message_text.                *)

\* how far past MinTextLen the printable runs of a generated blob go
MaxExtra == 2
\* how many printable runs follow the marker in a generated blob
MaxRuns == 2

Rep(b, n) == [k \in 1..n |-> b]

\* a run of n printable bytes that begins with prefix
Run(prefix, b, n) == prefix \o Rep(b, n - Len(prefix))

RunLens == MinTextLen..(MinTextLen + MaxExtra)

\* runs of message content ('aaa...', 'bbb...') and of framework names
Runs ==
    {Run(<<>>, b, n) : b \in {97, 98}, n \in RunLens}
        \cup {Run(p, 97, n) : p \in {PrefixNS, PrefixKIM},
                               n \in {MinTextLen, MinTextLen + MaxExtra}}

RECURSIVE RunSeqs(_)
RunSeqs(n) ==
    IF n = 0 THEN {<<>>}
    ELSE RunSeqs(n - 1)
            \cup {<<0>> \o r \o rest : r \in Runs, rest \in RunSeqs(n - 1)}

\* blobs laid out as a serialized attributed string: a head byte or none,
\* a class name or none, then runs each led by a zero byte
ArchiveBlobs ==
    {h \o m \o rs :
        h \in {<<>>, <<255>>},
        m \in {<<>>, MarkerNSAttributedString, MarkerNSMutableAttributedString},
        rs \in RunSeqs(MaxRuns)}

\* short blobs: blank, plain ASCII, two-byte UTF-8, broken UTF-8, a bare
\* marker, a class name without the marker, a marker led by content
PlainBlobs ==
    {<<>>, <<32, 32>>, <<112, 97, 121>>, <<195, 169, 33>>, <<195>>, <<255, 104, 105>>,
     MarkerNSAttributedString,
     PrefixNS \o <<78, 117, 109, 98, 101, 114>>,
     <<120, 120, 120>> \o MarkerNSAttributedString}

Texts == {Null, Str(<<>>), Str(<<32, 9>>), Str(<<32, 104, 105, 10>>)}
Bodies == {Null, Str(<<32>>), Str(<<121, 111>>)}
Payloads == {Null, Bytes(<<112, 97, 121>>), Bytes(<<255>>),
             Bytes(MarkerNSAttributedString \o <<0>> \o Run(<<>>, 99, MinTextLen + 1))}

Row(text, body, attributedBody, payload_data) ==
    [text |-> text, body |-> body,
     attributedBody |-> attributedBody, payload_data |-> payload_data]

Rows ==
    {Row(Null, Null, Bytes(b), p) :
        b \in ArchiveBlobs, p \in {Null, Bytes(<<112, 97, 121>>)}}
    \cup {Row(t, y, a, p) :
            t \in Texts, y \in Bodies,
            a \in {Null} \cup {Bytes(b) : b \in PlainBlobs}, p \in Payloads}

NoRow == Row(Null, Null, Null, Null)

----------------------------------------------------------------------------
(* Rows the model feeds to get_messages_for_contact. Its query selects no  *)
(* body column, so message_row.get('body') is None for every row.          *)

\* how many rows the query returns at most
MaxRows == 2

\* the columns extract_message_text reads: a plain text, a bare marker, a
\* blank blob, a payload that holds text
RowTexts ==
    {Row(Str(<<32, 104, 105, 10>>), Null, Null, Null),
     Row(Null, Null, Bytes(MarkerNSAttributedString), Null),
     Row(Null, Null, Bytes(<<32, 32>>), Null),
     Row(Str(<<>>), Null, Bytes(<<255>>), Bytes(<<112, 97, 121>>))}

\* date columns: NULL, 0, half a second, a second, a day and 3661 s, the
\* Unix epoch, a date past year 9999 (a REAL: 64-bit INTEGER nanoseconds stay
\* within the years 1708 to 2293), and a str
RowDates ==
    {Null, Nanos(0, 0, 0), Nanos(0, 0, NanosPerSecond \div 2), Nanos(0, 1, 0),
     Nanos(1, 3661, 0), Nanos(0 - AppleEpochDays, 0, 0), Nanos(2921940, 0, 0),
     Str(<<120>>)}

ContactRow(r, d, a, b, y) ==
    [text |-> r.text, body |-> r.body, attributedBody |-> r.attributedBody,
     payload_data |-> r.payload_data, date |-> d, is_from_me |-> PyInt(0),
     cache_has_attachments |-> a, balloon_bundle_id |-> b,
     associated_message_type |-> y,
     contact_identifier |-> Str(<<43, 49>>)]

\* every text against every setting of the three flags, at one date; and
\* every date on a message with text and on one without
ContactRows ==
    {ContactRow(r, Nanos(0, 1, 0), a, b, y) :
        r \in RowTexts,
        a \in {PyInt(0), PyInt(1)},
        b \in {Null, Str(<<>>), Str(<<99, 111, 109, 46, 120>>)},
        y \in {PyInt(0), PyInt(2000)}}
    \cup {ContactRow(r, d, PyInt(0), Null, PyInt(0)) :
            r \in {Row(Str(<<32, 104, 105, 10>>), Null, Null, Null), NoRow},
            d \in RowDates}

Zones == {0, 0 - 18000, 3600}

NoMsg == [row |-> NoRow, extracted_text |-> NotCalled, display_text |-> <<>>,
          readable_date |-> <<>>, sender |-> <<>>]

\* the file export_to_csv writes: no file at filepath
NoFile == [exists |-> FALSE, header |-> FALSE, rows |-> 0]
\* open(filepath, 'w') creates the file, or empties it
EmptyFile == [exists |-> TRUE, header |-> FALSE, rows |-> 0]

----------------------------------------------------------------------------
(* The recovery of one message row: the row is read, then the function is  *)
(* called on it.                                                           *)

InitRecover ==
    /\ rec \in Rows
    /\ result = NotCalled
    /\ tz = 0 /\ conn = "none" /\ cpc = "idle" /\ remaining = 0
    /\ n_processed = 0 /\ msg_dict = NoMsg /\ returned = -1
    /\ pc = "idle" /\ db = "ok" /\ debug = FALSE /\ analyze_contact = FALSE
    /\ connected = "pending" /\ opens = 0 /\ contacts = 0 /\ messages = 0
    /\ choices = 0 /\ ending = "none" /\ exit_code = -1
    /\ epc = "idle" /\ contact_name = <<>> /\ safe_name = <<>>
    /\ csvfile = NoFile /\ exported = "pending"

CallExtract ==
    /\ result = NotCalled
    /\ result' = extract_message_text(rec)
    /\ UNCHANGED <<rec, conn>>
    /\ UNCHANGED contactVars
    /\ UNCHANGED mainVars
    /\ UNCHANGED exportVars

NextRecover == CallExtract

SpecRecover == InitRecover /\ [][NextRecover]_vars

----------------------------------------------------------------------------
(* One call of get_messages_for_contact. The rows are drawn one at a time  *)
(* as the loop reaches them; of processed_messages the model keeps the     *)
(* length and the msg_dict appended last.                                  *)

InitContact ==
    /\ rec = NoRow /\ result = NotCalled
    /\ tz \in Zones
    /\ conn \in {"none", "open"}
    /\ cpc = "call"
    /\ remaining = 0 /\ n_processed = 0 /\ msg_dict = NoMsg /\ returned = -1
    /\ pc = "idle" /\ db = "ok" /\ debug = FALSE /\ analyze_contact = FALSE
    /\ connected = "pending" /\ opens = 0 /\ contacts = 0 /\ messages = 0
    /\ choices = 0 /\ ending = "none" /\ exit_code = -1
    /\ epc = "idle" /\ contact_name = <<>> /\ safe_name = <<>>
    /\ csvfile = NoFile /\ exported = "pending"

\* if not self.conn: return []
NoConnection ==
    /\ cpc = "call" /\ conn = "none"
    /\ cpc' = "returned" /\ returned' = 0
    /\ UNCHANGED <<rec, result, tz, conn, remaining, n_processed, msg_dict>>
    /\ UNCHANGED mainVars
    /\ UNCHANGED exportVars

\* the query and fetchall(), and analyze_empty_messages when asked for
RunQuery ==
    /\ cpc = "call" /\ conn = "open"
    /\ \E n \in 0..MaxRows :
          /\ remaining' = n
          /\ cpc' = "loop"
    /\ UNCHANGED <<rec, result, tz, conn, n_processed, msg_dict, returned>>
    /\ UNCHANGED mainVars
    /\ UNCHANGED exportVars

\* conn.execute raises, in the query or in analyze_empty_messages:
\* except Exception ... return []
QueryFails ==
    /\ cpc = "call" /\ conn = "open"
    /\ cpc' = "returned" /\ returned' = 0
    /\ UNCHANGED <<rec, result, tz, conn, remaining, n_processed, msg_dict>>
    /\ UNCHANGED mainVars
    /\ UNCHANGED exportVars

\* one iteration of for msg in messages
ProcessMessage ==
    /\ cpc = "loop" /\ remaining > 0
    /\ \E msg \in ContactRows :
          LET outcome == ProcessRow(msg, tz) IN
          IF outcome.kind = "raise"
          THEN /\ cpc' = "returned" /\ returned' = 0
               /\ UNCHANGED <<remaining, n_processed, msg_dict>>
          ELSE /\ msg_dict' = outcome.v
               /\ n_processed' = n_processed + 1
               /\ remaining' = remaining - 1
               /\ UNCHANGED <<cpc, returned>>
    /\ UNCHANGED <<rec, result, tz, conn>>
    /\ UNCHANGED mainVars
    /\ UNCHANGED exportVars

\* return processed_messages
ReturnProcessed ==
    /\ cpc = "loop" /\ remaining = 0
    /\ cpc' = "returned" /\ returned' = n_processed
    /\ UNCHANGED <<rec, result, tz, conn, remaining, n_processed, msg_dict>>
    /\ UNCHANGED mainVars
    /\ UNCHANGED exportVars

NextContact ==
    \/ NoConnection
    \/ RunQuery
    \/ QueryFails
    \/ ProcessMessage
    \/ ReturnProcessed

SpecContact == InitContact /\ [][NextContact]_vars

----------------------------------------------------------------------------
(* export_to_csv(messages, contact_name). Of messages the model keeps the   *)
(* length, of the file at filepath whether it exists, whether the header   *)
(* line is in it and how many rows are in it. A step that touches the file *)
(* system succeeds or raises; a row also raises when it cannot be written  *)
(* (a missing key, text that cannot be encoded).                           *)

\* str.isalnum for one code point below 256
IsAlnum(c) ==
    \/ c \in 48..57 \/ c \in 65..90 \/ c \in 97..122
    \/ c \in {170, 178, 179, 181, 185, 186}
    \/ c \in 188..190 \/ c \in 192..214 \/ c \in 216..246 \/ c \in 248..255

\* c.isalnum() or c in (' ', '-', '_')
KeptInName(c) == IsAlnum(c) \/ c \in {32, 45, 95}

\* "".join(c for c in str(contact_name) if ...).rstrip()
SafeName(name) == RStrip(SelectSeq(name, KeptInName))

\* contact identifiers: "+15", "a@b", "J /", "é-_"
ContactNames ==
    {<<43, 49, 53>>, <<97, 64, 98>>, <<74, 32, 47>>, <<233, 45, 95>>}

\* the except clause: the error is printed, None is returned; the file is
\* left as the with statement closed it
ExportFails ==
    /\ epc' = "returned"
    /\ exported' = "None"

\* os.makedirs(output_dir, exist_ok=True)
MakeDirs ==
    /\ epc = "call"
    /\ \E ok \in BOOLEAN :
          IF ok THEN epc' = "name" /\ UNCHANGED exported
                ELSE ExportFails
    /\ UNCHANGED <<contact_name, safe_name, csvfile>>
    /\ UNCHANGED <<rec, result, conn>>
    /\ UNCHANGED contactVars
    /\ UNCHANGED mainVars

\* safe_name, timestamp, filename and filepath are computed
NameFile ==
    /\ epc = "name"
    /\ safe_name' = SafeName(contact_name)
    /\ epc' = "open"
    /\ UNCHANGED <<contact_name, csvfile, exported>>
    /\ UNCHANGED <<rec, result, conn>>
    /\ UNCHANGED contactVars
    /\ UNCHANGED mainVars

\* with open(filepath, 'w', ...) as csvfile
OpenFile ==
    /\ epc = "open"
    /\ \E ok \in BOOLEAN :
          IF ok THEN /\ csvfile' = EmptyFile
                     /\ epc' = "header"
                     /\ UNCHANGED exported
                ELSE /\ ExportFails
                     /\ UNCHANGED csvfile
    /\ UNCHANGED <<contact_name, safe_name>>
    /\ UNCHANGED <<rec, result, conn>>
    /\ UNCHANGED contactVars
    /\ UNCHANGED mainVars

\* writer.writeheader()
WriteHeader ==
    /\ epc = "header"
    /\ \E ok \in BOOLEAN :
          IF ok THEN /\ csvfile' = [csvfile EXCEPT !.header = TRUE]
                     /\ epc' = "rows"
                     /\ UNCHANGED exported
                ELSE /\ ExportFails
                     /\ UNCHANGED csvfile
    /\ UNCHANGED <<contact_name, safe_name>>
    /\ UNCHANGED <<rec, result, conn>>
    /\ UNCHANGED contactVars
    /\ UNCHANGED mainVars

\* for msg in messages: writer.writerow({...})
WriteRow ==
    /\ epc = "rows" /\ csvfile.rows < messages
    /\ \E ok \in BOOLEAN :
          IF ok THEN /\ csvfile' = [csvfile EXCEPT !.rows = @ + 1]
                     /\ UNCHANGED <<epc, exported>>
                ELSE /\ ExportFails
                     /\ UNCHANGED csvfile
    /\ UNCHANGED <<contact_name, safe_name>>
    /\ UNCHANGED <<rec, result, conn>>
    /\ UNCHANGED contactVars
    /\ UNCHANGED mainVars

\* the loop is over, the file is closed, the path is printed and returned
ReturnFilepath ==
    /\ epc = "rows" /\ csvfile.rows = messages
    /\ epc' = "returned"
    /\ exported' = "filepath"
    /\ UNCHANGED <<contact_name, safe_name, csvfile>>
    /\ UNCHANGED <<rec, result, conn>>
    /\ UNCHANGED contactVars
    /\ UNCHANGED mainVars

InitExport ==
    /\ rec = NoRow /\ result = NotCalled
    /\ tz = 0 /\ conn = "open" /\ cpc = "idle" /\ remaining = 0
    /\ n_processed = 0 /\ msg_dict = NoMsg /\ returned = -1
    /\ pc = "idle" /\ db = "ok" /\ debug = FALSE /\ analyze_contact = FALSE
    /\ connected = "pending" /\ opens = 0 /\ contacts = 0
    /\ messages \in 0..MaxRows
    /\ choices = 0 /\ ending = "none" /\ exit_code = -1
    /\ epc = "call"
    /\ contact_name \in ContactNames
    /\ safe_name = <<>>
    /\ csvfile = NoFile /\ exported = "pending"

NextExport ==
    \/ MakeDirs
    \/ NameFile
    \/ OpenFile
    \/ WriteHeader
    \/ WriteRow
    \/ ReturnFilepath

SpecExport == InitExport /\ [][NextExport]_vars

----------------------------------------------------------------------------
(* main: connect_to_database, the two modes, the menu loop, the finally    *)
(* clause and the exit of the process. search_contacts,                    *)
(* get_messages_for_contact and export_to_csv catch every Exception and    *)
(* return a value; analyze_empty_messages, called from the menu, does not. *)

\* how many contacts a search returns at most
MaxContacts == 2
\* how many menu choices a run reads at most
MaxChoices == 3

InitMain ==
    /\ rec = NoRow /\ result = NotCalled
    /\ tz = 0 /\ cpc = "idle" /\ remaining = 0
    /\ n_processed = 0 /\ msg_dict = NoMsg /\ returned = -1
    /\ conn = "none"
    /\ pc = "start"
    /\ db \in {"missing", "notdb", "ok"}
    /\ debug \in BOOLEAN
    /\ analyze_contact \in BOOLEAN
    /\ connected = "pending" /\ opens = 0 /\ contacts = 0 /\ messages = 0
    /\ choices = 0 /\ ending = "none" /\ exit_code = -1
    /\ epc = "idle" /\ contact_name = <<>> /\ safe_name = <<>>
    /\ csvfile = NoFile /\ exported = "pending"

quiet == <<rec, result, tz, cpc, remaining, n_processed, msg_dict, returned,
           epc, contact_name, safe_name, csvfile, exported>>

\* connect_to_database: the file does not exist, return False
ConnectMissing ==
    /\ pc = "start" /\ db = "missing"
    /\ connected' = "false"
    /\ pc' = "connect_failed"
    /\ UNCHANGED <<conn, db, debug, analyze_contact, opens, contacts, messages,
                   choices, ending, exit_code>>
    /\ UNCHANGED quiet

\* connect_to_database: sqlite3.connect gives a connection, the COUNT query
\* raises, the except clause returns False; self.conn keeps the connection
ConnectQueryFails ==
    /\ pc = "start" /\ db = "notdb"
    /\ conn' = "open" /\ opens' = opens + 1
    /\ connected' = "false"
    /\ pc' = "connect_failed"
    /\ UNCHANGED <<db, debug, analyze_contact, contacts, messages, choices, ending,
                   exit_code>>
    /\ UNCHANGED quiet

\* connect_to_database: connected, the count is printed, the schema is shown
\* under debug (show_message_schema catches its errors), return True
ConnectOk ==
    /\ pc = "start" /\ db = "ok"
    /\ conn' = "open" /\ opens' = opens + 1
    /\ connected' = "true"
    /\ pc' = "try"
    /\ UNCHANGED <<db, debug, analyze_contact, contacts, messages, choices, ending,
                   exit_code>>
    /\ UNCHANGED quiet

\* if not extractor.connect_to_database(): sys.exit(1)
ExitOnConnectFailure ==
    /\ pc = "connect_failed"
    /\ exit_code' = 1
    /\ pc' = "exited"
    /\ UNCHANGED <<conn, db, debug, analyze_contact, connected, opens, contacts,
                   messages, choices, ending>>
    /\ UNCHANGED quiet

\* if args.analyze_contact: search, extract the first contact's messages, return
BatchAnalyze ==
    /\ pc = "try" /\ analyze_contact
    /\ \E n \in 0..MaxContacts, m \in 0..MaxRows :
          /\ contacts' = n
          /\ messages' = IF n > 0 THEN m ELSE messages
    /\ ending' = "return"
    /\ pc' = "finally"
    /\ UNCHANGED <<conn, db, debug, analyze_contact, connected, opens, choices,
                   exit_code>>
    /\ UNCHANGED quiet

\* while True: the menu is printed
EnterMenu ==
    /\ pc = "try" /\ ~analyze_contact
    /\ pc' = "menu"
    /\ UNCHANGED <<conn, db, debug, analyze_contact, connected, opens, contacts,
                   messages, choices, ending, exit_code>>
    /\ UNCHANGED quiet

\* choice = input(...).strip(): 1, 2 and 3 go to their branch, 4 breaks,
\* anything else shows the menu again
ReadChoice ==
    /\ pc = "menu" /\ choices < MaxChoices
    /\ choices' = choices + 1
    /\ \E choice \in {"1", "2", "3", "4", "other"} :
          /\ pc' = CASE choice = "1" -> "search1"
                     [] choice = "2" -> "search2"
                     [] choice = "3" -> "search3"
                     [] choice = "4" -> "finally"
                     [] OTHER -> "menu"
          /\ ending' = IF choice = "4" THEN "break" ELSE ending
    /\ UNCHANGED <<conn, db, debug, analyze_contact, connected, opens, contacts,
                   messages, exit_code>>
    /\ UNCHANGED quiet

\* choice 1: the term is read, search_contacts returns a list, it is printed
Choice1Search ==
    /\ pc = "search1"
    /\ \E n \in 0..MaxContacts : contacts' = n
    /\ pc' = "menu"
    /\ UNCHANGED <<conn, db, debug, analyze_contact, connected, opens, messages,
                   choices, ending, exit_code>>
    /\ UNCHANGED quiet

\* choice 2: the term is read, search_contacts returns a list
Choice2Search ==
    /\ pc = "search2"
    /\ \E n \in 0..MaxContacts :
          /\ contacts' = n
          /\ pc' = IF n > 0 THEN "select2" ELSE "menu"
    /\ UNCHANGED <<conn, db, debug, analyze_contact, connected, opens, messages,
                   choices, ending, exit_code>>
    /\ UNCHANGED quiet

\* choice 2: int(input(...)) raises ValueError, which is caught; or the
\* number is out of range; or the contact's messages are extracted
Choice2Select ==
    /\ pc = "select2"
    /\ \E is_number \in BOOLEAN, selection \in (0 - 1)..contacts :
          IF is_number /\ 0 <= selection /\ selection < contacts
          THEN \E m \in 0..MaxRows :
                  /\ messages' = m
                  /\ pc' = IF m > 0 THEN "export2" ELSE "menu"
          ELSE /\ pc' = "menu"
               /\ UNCHANGED messages
    /\ UNCHANGED <<conn, db, debug, analyze_contact, connected, opens, contacts,
                   choices, ending, exit_code>>
    /\ UNCHANGED quiet

\* choice 2: the sample is printed; on 'y' export_to_csv is called with the
\* messages and the contact's identifier, for a file named by the time
Choice2Export ==
    /\ pc = "export2"
    /\ \E answer_y \in BOOLEAN :
          IF answer_y
          THEN /\ pc' = "exporting"
               /\ epc' = "call"
               /\ \E name \in ContactNames : contact_name' = name
               /\ safe_name' = <<>>
               /\ csvfile' = NoFile
               /\ exported' = "pending"
          ELSE /\ pc' = "menu"
               /\ UNCHANGED exportVars
    /\ UNCHANGED <<conn, db, debug, analyze_contact, connected, opens, contacts,
                   messages, choices, ending, exit_code>>
    /\ UNCHANGED <<rec, result, tz, cpc, remaining, n_processed, msg_dict, returned>>

\* choice 2: export_to_csv returned, its value is dropped, back to the menu
Choice2Exported ==
    /\ pc = "exporting" /\ epc = "returned"
    /\ pc' = "menu"
    /\ epc' = "idle"
    /\ UNCHANGED <<conn, db, debug, analyze_contact, connected, opens, contacts,
                   messages, choices, ending, exit_code>>
    /\ UNCHANGED <<contact_name, safe_name, csvfile, exported>>
    /\ UNCHANGED <<rec, result, tz, cpc, remaining, n_processed, msg_dict, returned>>

\* choice 3: the term is read, search_contacts returns a list
Choice3Search ==
    /\ pc = "search3"
    /\ \E n \in 0..MaxContacts :
          /\ contacts' = n
          /\ pc' = IF n > 0 THEN "analyze3" ELSE "menu"
    /\ UNCHANGED <<conn, db, debug, analyze_contact, connected, opens, messages,
                   choices, ending, exit_code>>
    /\ UNCHANGED quiet

\* choice 3: analyze_empty_messages runs its query and prints
Choice3Analyze ==
    /\ pc = "analyze3"
    /\ pc' = "menu"
    /\ UNCHANGED <<conn, db, debug, analyze_contact, connected, opens, contacts,
                   messages, choices, ending, exit_code>>
    /\ UNCHANGED quiet

\* choice 3: conn.execute raises inside analyze_empty_messages (a column the
\* database does not have, a locked file); nothing in main catches it
Choice3AnalyzeRaises ==
    /\ pc = "analyze3"
    /\ ending' = "error"
    /\ pc' = "finally"
    /\ UNCHANGED <<conn, db, debug, analyze_contact, connected, opens, contacts,
                   messages, choices, exit_code>>
    /\ UNCHANGED quiet

AtPrompt == pc \in {"menu", "search1", "search2", "search3", "select2", "export2"}

\* Ctrl-C at a prompt: except KeyboardInterrupt prints the goodbye
Interrupt ==
    /\ AtPrompt
    /\ ending' = "interrupt"
    /\ pc' = "finally"
    /\ UNCHANGED <<conn, db, debug, analyze_contact, connected, opens, contacts,
                   messages, choices, exit_code>>
    /\ UNCHANGED quiet

\* input() raises EOFError at a prompt when standard input ends; nothing in
\* main catches it
EndOfInput ==
    /\ AtPrompt
    /\ ending' = "error"
    /\ pc' = "finally"
    /\ UNCHANGED <<conn, db, debug, analyze_contact, connected, opens, contacts,
                   messages, choices, exit_code>>
    /\ UNCHANGED quiet

\* close_connection: if self.conn: self.conn.close()
close_connection(c) == IF c # "none" THEN "closed" ELSE c

\* finally: extractor.close_connection()
Finally ==
    /\ pc = "finally"
    /\ conn' = close_connection(conn)
    /\ pc' = "closed"
    /\ UNCHANGED <<db, debug, analyze_contact, connected, opens, contacts, messages,
                   choices, ending, exit_code>>
    /\ UNCHANGED quiet

\* the process ends: status 0 when main returns, 1 with a traceback when an
\* exception left main
ExitAfterTry ==
    /\ pc = "closed"
    /\ exit_code' = IF ending = "error" THEN 1 ELSE 0
    /\ pc' = "exited"
    /\ UNCHANGED <<conn, db, debug, analyze_contact, connected, opens, contacts,
                   messages, choices, ending>>
    /\ UNCHANGED quiet

Next ==
    \/ ConnectMissing
    \/ ConnectQueryFails
    \/ ConnectOk
    \/ ExitOnConnectFailure
    \/ BatchAnalyze
    \/ EnterMenu
    \/ ReadChoice
    \/ Choice1Search
    \/ Choice2Search
    \/ Choice2Select
    \/ Choice2Export
    \/ MakeDirs
    \/ NameFile
    \/ OpenFile
    \/ WriteHeader
    \/ WriteRow
    \/ ReturnFilepath
    \/ Choice2Exported
    \/ Choice3Search
    \/ Choice3Analyze
    \/ Choice3AnalyzeRaises
    \/ Interrupt
    \/ EndOfInput
    \/ Finally
    \/ ExitAfterTry

Spec == InitMain /\ [][Next]_vars

----------------------------------------------------------------------------
(* Vocabulary of the properties of extract_message_text.                   *)

Called == result.kind # "notcalled"

\* a plain-text or body column that holds no text: NULL, '' or white space
Blank(c) == c.t = "null" \/ (c.t = "str" /\ \A k \in 1..Len(c.v) : IsSpace(c.v[k]))

\* the record with one column emptied: what the later candidates alone give
Without(field) == extract_message_text([rec EXCEPT ![field] = Null])

\* the rich-text blob is the first candidate to be looked at
BlobReached ==
    /\ Called
    /\ Blank(rec.text) /\ Blank(rec.body)
    /\ rec.attributedBody.t = "bytes" /\ rec.attributedBody.v # <<>>

\* the maximal runs of bytes in 0x20..0x7E of blob b, by their first position
RunStarts(b) ==
    {i \in 1..Len(b) : b[i] \in 32..126 /\ (i = 1 \/ b[i - 1] \notin 32..126)}

RunStop(b, i) ==
    LET stops == {j \in i..Len(b) : j = Len(b) \/ b[j + 1] \notin 32..126} IN
    CHOOSE j \in stops : \A k \in stops : j <= k

RunAt(b, i) == SubSeq(b, i, RunStop(b, i))

NamePrefixed(r) == StartsWith(r, <<78, 83>>) \/ StartsWith(r, <<95, 95, 107, 73, 77>>)

\* the runs that are neither short (20 or less) nor class or key names
Survivors(b) == {i \in RunStarts(b) : Len(RunAt(b, i)) > 20 /\ ~NamePrefixed(RunAt(b, i))}

\* the longest surviving run, the earliest among equals
Longest(b) ==
    RunAt(b, CHOOSE i \in Survivors(b) :
                \A j \in Survivors(b) :
                    /\ Len(RunAt(b, j)) <= Len(RunAt(b, i))
                    /\ j < i => Len(RunAt(b, j)) < Len(RunAt(b, i)))

----------------------------------------------------------------------------
\* C1: a record whose plain-text column is a non-blank string gives exactly
\* that string trimmed, whatever body, attributedBody and payload_data hold;
\* with the text column empty, a non-blank body gives the body trimmed.
C1_TextFirst ==
    Called =>
        /\ (rec.text.t = "str" /\ ~Blank(rec.text)) => result = Return(Strip(rec.text.v))
        /\ (Blank(rec.text) /\ rec.body.t = "str" /\ ~Blank(rec.body))
                => result = Return(Strip(rec.body.v))

\* the text column wins over a body and two blobs that all hold text, and
\* the returned string is shorter than the stored one
C1_Witness ==
    /\ Called
    /\ rec.text = Str(<<32, 104, 105, 10>>)
    /\ result = Return(<<104, 105>>)
    /\ ~Blank(rec.body)
    /\ rec.attributedBody = Bytes(<<112, 97, 121>>)
    /\ rec.payload_data = Bytes(<<112, 97, 121>>)

\* C2 as stated: every blob that decodes cleanly as UTF-8 gives the decoded
\* string itself.
C2_CleanUtf8ReturnedAsIs ==
    (BlobReached /\ Utf8Valid(rec.attributedBody.v, 1))
        => result = Return(Utf8Text(rec.attributedBody.v, 1))

\* C2 amended: the marker test comes first. A blob that holds neither marker
\* and decodes cleanly as UTF-8 gives the decoded string itself; a blob that
\* holds a marker is scanned for printable runs whether or not it decodes
\* cleanly, so it gives one of its printable runs or nothing.
C2_MarkerBeforeDecode ==
    BlobReached =>
        LET b == rec.attributedBody.v IN
        /\ (~Contains(b, MarkerNSAttributedString)
              /\ ~Contains(b, MarkerNSMutableAttributedString)
              /\ Utf8Valid(b, 1))
                => result = Return(Utf8Text(b, 1))
        /\ (Contains(b, MarkerNSAttributedString)
              \/ Contains(b, MarkerNSMutableAttributedString))
                => \/ \E i \in RunStarts(b) : result = Return(RunAt(b, i))
                   \/ result = Without("attributedBody")

\* a blob that is clean UTF-8 and holds the marker gives a run, not itself
C2_Witness ==
    /\ BlobReached
    /\ Contains(rec.attributedBody.v, MarkerNSAttributedString)
    /\ Utf8Valid(rec.attributedBody.v, 1)
    /\ result.kind = "text"
    /\ result.v # Utf8Text(rec.attributedBody.v, 1)
    /\ \E i \in RunStarts(rec.attributedBody.v) : result.v = RunAt(rec.attributedBody.v, i)

\* C3: with text and body blank, a rich-text blob that is clean UTF-8 gives
\* its decoded text unless that text is blank, in which case the next
\* candidate is tried; a blank string is never returned.
C3_BlankBlobSkipped ==
    /\ (BlobReached /\ Utf8Valid(rec.attributedBody.v, 1)) =>
            LET decoded == Utf8Text(rec.attributedBody.v, 1) IN
            IF Strip(decoded) # <<>>
            THEN result = Return(decoded)
            ELSE result = Without("attributedBody")
    /\ result.kind = "text" => Strip(result.v) # <<>>

\* C4: a blob holding a marker gives the longest of its maximal printable
\* runs that are longer than 20 and begin with neither 'NS' nor '__kIM', the
\* earliest of the longest; with no such run the field gives nothing.
C4_LongestRun ==
    (BlobReached /\ (Contains(rec.attributedBody.v, MarkerNSAttributedString)
                     \/ Contains(rec.attributedBody.v, MarkerNSMutableAttributedString)))
        => IF Survivors(rec.attributedBody.v) # {}
           THEN result = Return(Longest(rec.attributedBody.v))
           ELSE result = Without("attributedBody")

\* two surviving runs share the greatest length and differ; the first is given
C4_Witness ==
    /\ BlobReached
    /\ Contains(rec.attributedBody.v, MarkerNSMutableAttributedString)
    /\ \E i, j \in Survivors(rec.attributedBody.v) :
          /\ i < j
          /\ Len(RunAt(rec.attributedBody.v, i)) = Len(RunAt(rec.attributedBody.v, j))
          /\ RunAt(rec.attributedBody.v, i) # RunAt(rec.attributedBody.v, j)
          /\ result = Return(RunAt(rec.attributedBody.v, i))

\* the printable runs of the blob all begin with 'NS' or '__kIM'
OnlyNameRuns(b) == \A i \in RunStarts(b) : NamePrefixed(RunAt(b, i))

\* C5 as stated: every blob whose only printable runs begin with 'NS' or
\* '__kIM' gives nothing, and the next candidate is tried.
C5_NameRunsGiveNothing ==
    (BlobReached /\ OnlyNameRuns(rec.attributedBody.v))
        => result = Without("attributedBody")

\* C5 amended: that holds of the blobs that hold a marker. A blob without a
\* marker is never scanned: it gives its decoded text when it is valid UTF-8
\* and nothing otherwise.
C5_MarkedNameRunsGiveNothing ==
    (BlobReached /\ OnlyNameRuns(rec.attributedBody.v)) =>
        LET b == rec.attributedBody.v IN
        IF Contains(b, MarkerNSAttributedString)
              \/ Contains(b, MarkerNSMutableAttributedString)
        THEN result = Without("attributedBody")
        ELSE IF Utf8Valid(b, 1)
             THEN result = Return(Utf8Text(b, 1))
             ELSE result = Without("attributedBody")

\* a marked blob with a long '__kIM' run gives way to the payload
C5_Witness ==
    /\ BlobReached
    /\ Contains(rec.attributedBody.v, MarkerNSAttributedString)
    /\ OnlyNameRuns(rec.attributedBody.v)
    /\ \E i \in RunStarts(rec.attributedBody.v) :
          /\ StartsWith(RunAt(rec.attributedBody.v, i), PrefixKIM)
          /\ Len(RunAt(rec.attributedBody.v, i)) > MinTextLen
    /\ rec.payload_data = Bytes(<<112, 97, 121>>)
    /\ result = Return(<<112, 97, 121>>)

\* C6: the call never raises; a blob that is not valid UTF-8 and holds no
\* marker counts as giving nothing and the later candidates are still tried;
\* None is returned only when no candidate holds text.
C6_NeverRaises ==
    /\ result.kind # "raise"
    /\ (BlobReached /\ ~Utf8Valid(rec.attributedBody.v, 1)
          /\ ~Contains(rec.attributedBody.v, MarkerNSAttributedString)
          /\ ~Contains(rec.attributedBody.v, MarkerNSMutableAttributedString))
            => result = Without("attributedBody")
    /\ (Called /\ result.kind = "none") =>
            /\ Blank(rec.text) /\ Blank(rec.body)
            /\ \A f \in {"attributedBody", "payload_data"} :
                  (rec[f].t = "bytes" /\ Utf8Valid(rec[f].v, 1)
                     /\ ~Contains(rec[f].v, MarkerNSAttributedString)
                     /\ ~Contains(rec[f].v, MarkerNSMutableAttributedString))
                        => rec[f].v = <<>>

\* a broken blob is passed over and the payload's text is returned
C6_Witness ==
    /\ BlobReached
    /\ rec.attributedBody = Bytes(<<255, 104, 105>>)
    /\ rec.payload_data.t = "bytes" /\ Contains(rec.payload_data.v, MarkerNSAttributedString)
    /\ result = Return(Run(<<>>, 99, MinTextLen + 1))

----------------------------------------------------------------------------
(* Properties of get_messages_for_contact.                                 *)

Built == msg_dict # NoMsg

\* C7: a message gets a placeholder exactly when no text was recovered from
\* any field, chosen in strict priority: '[Attachment]' when the attachment
\* flag is set, else '[App Message: <bundle-id>]' when a bundle id is there,
\* else '[Reaction/Effect]' when a reaction marker is there, else
\* '[No text content]'. An attachment with a bundle id gives '[Attachment]';
\* a bare marker blob with nothing else gives '[No text content]'.
C7_PlaceholderPriority ==
    Built =>
        LET row == msg_dict.row
            attachment == row.cache_has_attachments.t = "int"
                            /\ row.cache_has_attachments.v # 0
            bundle == row.balloon_bundle_id.t = "str" /\ row.balloon_bundle_id.v # <<>>
            reaction == row.associated_message_type.t = "int"
                            /\ row.associated_message_type.v # 0
        IN  /\ msg_dict.extracted_text.kind = "text"
                => msg_dict.display_text = msg_dict.extracted_text.v
            /\ msg_dict.extracted_text.kind = "none" =>
                  msg_dict.display_text =
                     IF attachment THEN PlaceholderAttachment
                     ELSE IF bundle
                          THEN AppMessageOpen \o row.balloon_bundle_id.v \o AppMessageClose
                     ELSE IF reaction THEN PlaceholderReaction
                     ELSE PlaceholderNoText
            /\ msg_dict.extracted_text.kind \in {"text", "none"}
            /\ (row.text = Null /\ row.attributedBody = Bytes(MarkerNSAttributedString)
                  /\ row.payload_data = Null /\ ~attachment /\ ~bundle /\ ~reaction)
                    => msg_dict.display_text = PlaceholderNoText

\* no text, the attachment flag set and a bundle id: '[Attachment]'
C7_Witness ==
    /\ Built
    /\ msg_dict.extracted_text.kind = "none"
    /\ msg_dict.row.cache_has_attachments = PyInt(1)
    /\ msg_dict.row.balloon_bundle_id = Str(<<99, 111, 109, 46, 120>>)
    /\ msg_dict.row.associated_message_type = PyInt(2000)
    /\ msg_dict.display_text = PlaceholderAttachment

\* '2001-01-01 00:00:00'
EpochString ==
    <<50, 48, 48, 49, 45, 48, 49, 45, 48, 49, 32, 48, 48, 58, 48, 48, 58, 48, 48>>

\* C8: a message whose date is 0 is shown with the readable date
\* '2001-01-01 00:00:00', and an integer date is never shown as 'Unknown'.
C8_ZeroIsEpoch ==
    Built =>
        /\ msg_dict.row.date = Nanos(0, 0, 0) => msg_dict.readable_date = EpochString
        /\ msg_dict.row.date.t = "ns" => msg_dict.readable_date # Unknown

----------------------------------------------------------------------------
(* Properties of main.                                                     *)

\* C9: the connection is opened at most once, and once it was opened every
\* end of the process comes after close_connection has closed it.
C9_ClosedOnEveryExit ==
    /\ opens <= 1
    /\ (pc = "exited" /\ opens > 0) => conn = "closed"

\* C10: the exit status is 1 exactly when connect_to_database returned False
\* and 0 on every other run.
C10_ExitCode ==
    pc = "exited" =>
        /\ exit_code \in {0, 1}
        /\ exit_code = 1 <=> connected = "false"

\* C12: no stored timestamp makes the processing fail: each row the loop
\* reaches is appended with a readable date that is a formatted date or
\* 'Unknown', and the call returns every row's msg_dict, so a bad timestamp
\* on one message never costs the contact's other messages.
C12_ConversionNeverFails ==
    /\ cpc = "returned" => (remaining = 0 /\ returned = n_processed)
    /\ Built => (msg_dict.readable_date = Unknown \/ Len(msg_dict.readable_date) = 19)

\* C11: when export_to_csv fails (it reported the error and returned None),
\* no partial file is left at filepath: the file does not exist, or it holds
\* the header and one row for every message.
C11_NoPartialFile ==
    (epc = "returned" /\ exported = "None")
        => (~csvfile.exists \/ (csvfile.header /\ csvfile.rows = messages))

====
